---- MODULE Spec2Model ----
(***************************************************************************)
(* Model of yum/repository.go: the Repository type, the backend registry,  *)
(* the metadata codec (checkRepoMD), the metadata sources (remoteMetadata, *)
(* localMetadata) and the two synchronization runs                         *)
(* (setupBackendFromRemote, setupBackendFromLocal) started by              *)
(* NewRepository, plus the forwarded query calls.                          *)
(*                                                                         *)
(* A run is modelled step by step: one action per collaborator call, with  *)
(* pc the position in the function body.  The outcome of every call that   *)
(* can fail (http.Get, os.Open, a backend factory, GetLatestDB, WriteFile, *)
(* LoadDB) is chosen nondeterministically.  The disk (repomd.xml and the   *)
(* backends' databases) persists from one run to the next.                 *)
(***************************************************************************)
EXTENDS Integers, Sequences, FiniteSets, TLC

VARIABLES
    cacheFile,   \* <cache-dir>/repomd.xml: [exists, bytes]
    dbs,         \* per registered backend, its database on disk: [present, stamp]
    Backends,    \* repo.Backends
    Backend,     \* repo.Backend (Nil or a backend name)
    backend,     \* the local variable `backend` of the running setup function
    pc,          \* position of the control flow
    mode,        \* "none", "remote" or "local"
    idx,         \* position of the range loop over repo.Backends (1-based)
    remotedata,  \* bytes returned by remoteMetadata()
    remotemd,    \* mapping parsed from remotedata
    localdata,   \* bytes returned by localMetadata()
    localmd,     \* mapping parsed from the local repomd.xml
    result,      \* what NewRepository / the run returned
    returned,    \* TRUE when NewRepository handed a *Repository to the caller
    log,         \* collaborator calls made since NewRepository was entered
    lastQuery,   \* outcome of the last forwarded query call
    flags,       \* the setupBackend and checkForUpdates arguments of NewRepository
    hist         \* what earlier runs saw (kept only by the specifications over
                 \* sequences of runs; constant under Spec)

vars == <<cacheFile, dbs, Backends, Backend, backend, pc, mode, idx,
          remotedata, remotemd, localdata, localmd, result, returned, log, lastQuery,
          flags, hist>>

disk == <<cacheFile, dbs>>
mds  == <<remotedata, remotemd, localdata, localmd>>

(***************************************************************************)
(* Bounds of the model.                                                    *)
(***************************************************************************)
MaxBackends == 2      \* longest candidate list handed to NewRepository

(***************************************************************************)
(* Backends.  g_backends is the process-wide registry; "sqlite" and "flat" *)
(* are registered, "nope" is not.                                          *)
(***************************************************************************)
Nil == "nil"

g_backends == {"sqlite", "flat"}

BackendNames == g_backends \cup {"nope"}

\* Backend.YumDataType(): the key of the backend's record in repomd.xml
YumDataType(ba) == IF ba = "sqlite" THEN "primary_db" ELSE "primary"

RepoUrl == "http://repo"

(***************************************************************************)
(* Time.  A timestamp of the document is a float64 number of seconds since *)
(* the Unix epoch; the model writes it d days + h half-seconds             *)
(* (d*86400 + h/2 seconds, 0 <= h < 172800), which keeps every number      *)
(* within TLC's integers.  A time.Time is the instant [day, sec, nsec]     *)
(* counted from January 1, year 1 (Go's internal epoch); the zero          *)
(* time.Time is day 0, second 0, nanosecond 0.                             *)
(***************************************************************************)
DaysToUnixEpoch == 719162     \* days from January 1, year 1 to January 1, 1970
Nano == 1000000000            \* the 1e9 of checkRepoMD

Stamp(d, h) == [d |-> d, h |-> h]

\* sec := int64(math.Floor(ts)); nsec := int64((ts - float64(sec)) * 1e9);
\* time.Unix(sec, nsec)
UnixTime(ts) ==
    [day  |-> ts.d + DaysToUnixEpoch,
     sec  |-> ts.h \div 2,
     nsec |-> (ts.h % 2) * (Nano \div 2)]

ZeroTime == [day |-> 0, sec |-> 0, nsec |-> 0]

\* After with the comparison not strict (t is u or later)
After_OrEqual(t, u) ==
    \/ t.day > u.day
    \/ t.day = u.day /\ t.sec > u.sec
    \/ t.day = u.day /\ t.sec = u.sec /\ t.nsec >= u.nsec

\* t.After(u)
After(t, u) ==
    \/ t.day > u.day
    \/ t.day = u.day /\ t.sec > u.sec
    \/ t.day = u.day /\ t.sec = u.sec /\ t.nsec > u.nsec

\* the zero value of RepoMD, what indexing a map yields for a missing key
ZeroRepoMD == [Checksum |-> "", Timestamp |-> ZeroTime, Location |-> ""]

(***************************************************************************)
(* Documents.  Bytes are [kind, data]: kind "empty" is the zero-length     *)
(* byte sequence, "garbage" is non-empty bytes xml.Unmarshal rejects,      *)
(* "xml" is a <repomd> document whose <data> entries are the sequence      *)
(* data.                                                                   *)
(***************************************************************************)
EmptyBytes == [kind |-> "empty", data |-> <<>>]
Garbage    == [kind |-> "garbage", data |-> <<>>]
Doc(es)    == [kind |-> "xml", data |-> es]

E(type, ts, href) == [Type |-> type, Checksum |-> "c", Href |-> href, Timestamp |-> ts]

Tzero == Stamp(0 - DaysToUnixEpoch, 0)   \* January 1, year 1, 00:00:00
T1    == Stamp(0, 2001)                  \* 1000.5 s
T2    == Stamp(0, 2002)                  \* 1001 s

\* the documents the remote server may answer with
ServerDocs ==
    { EmptyBytes,
      Garbage,
      Doc(<<E("primary_db", T1, "db1")>>),
      Doc(<<E("primary_db", T2, "db2"), E("primary", T1, "xml1")>>),
      Doc(<<E("primary_db", T1, "db1"), E("primary_db", T2, "db2")>>),
      Doc(<<E("primary", Tzero, "xml0")>>),
      Doc(<<E("other", T1, "o1")>>) }

\* the repomd.xml files the cache directory may hold before the first run
InitialCaches ==
    { [exists |-> FALSE, bytes |-> EmptyBytes],
      [exists |-> TRUE,  bytes |-> EmptyBytes],
      [exists |-> TRUE,  bytes |-> Garbage],
      [exists |-> TRUE,  bytes |-> Doc(<<E("primary_db", T1, "db1")>>)] }

NoDB == [present |-> FALSE, stamp |-> ZeroTime]

InitialDbs == [g_backends -> {NoDB, [present |-> TRUE, stamp |-> UnixTime(T1)]}]

\* the candidate lists handed to NewRepository
RECURSIVE SeqsUpTo(_, _)
SeqsUpTo(S, n) ==
    IF n = 0 THEN {<<>>}
    ELSE LET shorter == SeqsUpTo(S, n - 1)
         IN  shorter \cup {Append(s, x) : s \in shorter, x \in S}

CandidateLists == SeqsUpTo(BackendNames, MaxBackends)

(***************************************************************************)
(* checkRepoMD: the metadata codec.                                        *)
(***************************************************************************)
EmptyMap == [k \in {} |-> ZeroRepoMD]

\* Put that keeps the record already stored under the key
Put_KeepFirst(db, k, v) ==
    [x \in (DOMAIN db) \cup {k} |-> IF x \in DOMAIN db THEN db[x] ELSE v]

Put(db, k, v) == [x \in (DOMAIN db) \cup {k} |-> IF x = k THEN v ELSE db[x]]

\* the loop `for _, data := range tree.Data { db[data.Type] = RepoMD{...} }`
RECURSIVE Fill(_, _)
Fill(db, es) ==
    IF es = <<>> THEN db
    ELSE Fill(Put(db, Head(es).Type,
                  [Checksum  |-> Head(es).Checksum,
                   Timestamp |-> UnixTime(Head(es).Timestamp),
                   Location  |-> Head(es).Href]),
              Tail(es))

checkRepoMD(data) ==
    IF data.kind = "empty" THEN [err |-> FALSE, db |-> EmptyMap]
    ELSE IF data.kind = "garbage" THEN [err |-> TRUE, db |-> EmptyMap]
    ELSE [err |-> FALSE, db |-> Fill(EmptyMap, data.data)]

\* v, ok := md[key]
Lookup(md, key) ==
    IF key \in DOMAIN md THEN [ok |-> TRUE, v |-> md[key]]
    ELSE [ok |-> FALSE, v |-> ZeroRepoMD]

(***************************************************************************)
(* The log of collaborator calls.                                          *)
(***************************************************************************)
Call(op, i, name, ok, arg) == [op |-> op, i |-> i, name |-> name, ok |-> ok, arg |-> arg]

NoArg == <<>>

NoFlags == [setupBackend |-> FALSE, checkForUpdates |-> FALSE]

\* no record seen on the server for any data type, no earlier run
NoHist ==
    [seen |-> EmptyMap,
     prev |-> [set |-> FALSE, doc |-> EmptyBytes, Backends |-> <<>>,
               Backend |-> Nil, allOk |-> FALSE]]

NoQuery == [fn |-> "none", outcome |-> "none", ret |-> "none", answer |-> "none"]

Init ==
    /\ cacheFile \in InitialCaches
    /\ dbs \in InitialDbs
    /\ Backends = <<>>
    /\ Backend = Nil
    /\ backend = Nil
    /\ pc = "idle"
    /\ mode = "none"
    /\ idx = 1
    /\ remotedata = EmptyBytes
    /\ remotemd = EmptyMap
    /\ localdata = EmptyBytes
    /\ localmd = EmptyMap
    /\ result = "none"
    /\ returned = FALSE
    /\ log = <<>>
    /\ lastQuery = NoQuery
    /\ flags = NoFlags
    /\ hist = NoHist

(***************************************************************************)
(* NewRepository: builds the Repository, creates the cache directory and,  *)
(* when setupBackend is set, enters one of the two synchronization runs.   *)
(* The disk is what the previous runs left.                                *)
(***************************************************************************)
NewRepositoryWith(bs, setupBackend, checkForUpdates, mkdirOk) ==
    /\ pc = "idle"
    /\ Backends' = bs
    /\ flags' = [setupBackend |-> setupBackend, checkForUpdates |-> checkForUpdates]
    /\ log' = <<Call("MkdirAll", 0, "", mkdirOk, NoArg)>>
    /\ IF ~mkdirOk
         THEN /\ mode' = "none"
              /\ pc' = "done"
              /\ result' = "MkdirAllError"
              /\ returned' = FALSE
       ELSE IF ~setupBackend
         THEN /\ mode' = "none"
              /\ pc' = "done"
              /\ result' = "ok"
              /\ returned' = TRUE
       ELSE /\ mode' = IF checkForUpdates THEN "remote" ELSE "local"
            /\ pc' = IF checkForUpdates THEN "remoteMetadata" ELSE "localMetadata"
            /\ result' = "none"
            /\ returned' = FALSE
    /\ UNCHANGED <<disk, Backend, backend, idx, mds, lastQuery>>

NewRepository ==
    /\ \E bs \in CandidateLists, setupBackend \in BOOLEAN,
          checkForUpdates \in BOOLEAN, mkdirOk \in BOOLEAN :
          NewRepositoryWith(bs, setupBackend, checkForUpdates, mkdirOk)
    /\ UNCHANGED hist

\* ReturnError with the Repository handed out next to the error
ReturnError_StillReturnsRepo(e) ==
    /\ result' = e
    /\ returned' = TRUE
    /\ pc' = "done"

\* `return err` out of the setup function, then `return nil, err` out of
\* NewRepository
ReturnError(e) ==
    /\ result' = e
    /\ returned' = FALSE
    /\ pc' = "done"

(***************************************************************************)
(* The metadata phase.                                                     *)
(***************************************************************************)
\* remotedata, err := repo.remoteMetadata()
\* (docs: what the server may answer with)
RemoteMetadataFrom(docs) ==
    /\ pc = "remoteMetadata"
    /\ \E ok \in BOOLEAN, d \in docs :
          /\ log' = Append(log, Call("http.Get", 0, "", ok, <<RepoUrl, "/repodata/repomd.xml">>))
          /\ IF ok
               THEN /\ remotedata' = d
                    /\ pc' = "remoteParse"
                    /\ UNCHANGED <<result, returned>>
               ELSE /\ ReturnError("RemoteFetchError")
                    /\ UNCHANGED remotedata
    /\ UNCHANGED <<disk, Backends, flags, Backend, backend, mode, idx, remotemd,
                   localdata, localmd, lastQuery>>

RemoteMetadata ==
    /\ RemoteMetadataFrom(ServerDocs)
    /\ UNCHANGED hist

\* RemoteParse with the parse error dropped
RemoteParse_IgnoresError ==
    /\ pc = "remoteParse"
    /\ remotemd' = checkRepoMD(remotedata).db
    /\ pc' = "localMetadata"
    /\ UNCHANGED <<disk, Backends, flags, hist, Backend, backend, mode, idx, remotedata,
                   localdata, localmd, result, returned, log, lastQuery>>

\* remotemd, err := repo.checkRepoMD(remotedata)
RemoteParse ==
    /\ pc = "remoteParse"
    /\ LET r == checkRepoMD(remotedata)
       IN  IF r.err
             THEN /\ ReturnError("RemoteParseError")
                  /\ UNCHANGED remotemd
             ELSE /\ remotemd' = r.db
                  /\ pc' = "localMetadata"
                  /\ UNCHANGED <<result, returned>>
    /\ UNCHANGED <<disk, Backends, flags, hist, Backend, backend, mode, idx, remotedata,
                   localdata, localmd, log, lastQuery>>

\* LocalMetadata without the path_exists test: a missing file fails to open
LocalMetadata_MissingIsError ==
    /\ pc = "localMetadata"
    /\ \E ok \in BOOLEAN :
          /\ log' = Append(log, Call("os.Open", 0, "", ok /\ cacheFile.exists, NoArg))
          /\ IF ok /\ cacheFile.exists
               THEN /\ localdata' = cacheFile.bytes
                    /\ pc' = "localParse"
                    /\ UNCHANGED <<result, returned>>
               ELSE /\ ReturnError("LocalFetchError")
                    /\ UNCHANGED localdata
    /\ UNCHANGED <<disk, Backends, flags, hist, Backend, backend, mode, idx, remotedata,
                   remotemd, localmd, lastQuery>>

\* localdata, err := repo.localMetadata()
LocalMetadata ==
    /\ pc = "localMetadata"
    /\ IF ~cacheFile.exists
         THEN /\ localdata' = EmptyBytes
              /\ pc' = "localParse"
              /\ UNCHANGED <<result, returned, log>>
         ELSE \E ok \in BOOLEAN :
                /\ log' = Append(log, Call("os.Open", 0, "", ok, NoArg))
                /\ IF ok
                     THEN /\ localdata' = cacheFile.bytes
                          /\ pc' = "localParse"
                          /\ UNCHANGED <<result, returned>>
                     ELSE /\ ReturnError("LocalFetchError")
                          /\ UNCHANGED localdata
    /\ UNCHANGED <<disk, Backends, flags, hist, Backend, backend, mode, idx, remotedata,
                   remotemd, localmd, lastQuery>>

\* localmd, err := repo.checkRepoMD(localdata)
LocalParse ==
    /\ pc = "localParse"
    /\ LET r == checkRepoMD(localdata)
       IN  IF r.err
             THEN /\ ReturnError("LocalParseError")
                  /\ UNCHANGED localmd
             ELSE /\ localmd' = r.db
                  /\ pc' = "loop"
                  /\ UNCHANGED <<result, returned>>
    /\ UNCHANGED <<disk, Backends, flags, hist, Backend, backend, mode, idx, remotedata,
                   remotemd, localdata, log, lastQuery>>

(***************************************************************************)
(* The candidate loop.                                                     *)
(***************************************************************************)
\* NewBackend(backend, repo): the registry lookup, then the factory, whose
\* outcome factoryOk is the environment's
NewBackend(bname, factoryOk) ==
    IF bname \notin g_backends THEN [err |-> TRUE, ba |-> Nil]
    ELSE IF ~factoryOk THEN [err |-> TRUE, ba |-> Nil]
    ELSE [err |-> FALSE, ba |-> bname]

\* `continue` before the candidate was marked
Continue ==
    /\ idx' = idx + 1
    /\ pc' = "loop"
    /\ UNCHANGED <<backend, Backend>>

\* AbortCandidate without `repo.Backend = nil`
AbortCandidate_KeepsRepoBackend ==
    /\ backend' = Nil
    /\ idx' = idx + 1
    /\ pc' = "loop"
    /\ UNCHANGED Backend

\* AbortCandidate that tries the same candidate again
AbortCandidate_Retries ==
    /\ backend' = Nil
    /\ Backend' = Nil
    /\ pc' = "loop"
    /\ UNCHANGED idx

\* `backend = nil; repo.Backend = nil; continue`
AbortCandidate ==
    /\ backend' = Nil
    /\ Backend' = Nil
    /\ idx' = idx + 1
    /\ pc' = "loop"

\* SelectionMd with the local mapping in both modes
SelectionMd_Local == localmd

\* the mapping the loop looks the candidate up in
SelectionMd == IF mode = "remote" THEN remotemd ELSE localmd

\* AfterMark with the staleness decision in both modes
AfterMark_AlwaysStaleness == "staleness"

\* where the loop body goes once the candidate is marked
AfterMark == IF mode = "remote" THEN "staleness" ELSE "LoadDB"

\* the head of the loop body: instantiate, look the data type up, mark
CheckCandidate ==
    /\ pc = "loop"
    /\ idx <= Len(Backends)
    /\ \E factoryOk \in BOOLEAN :
          LET bname == Backends[idx]
              nb    == NewBackend(bname, factoryOk)
          IN  /\ log' = Append(log, Call("NewBackend", idx, bname, ~nb.err, NoArg))
              /\ IF nb.err
                   THEN Continue
                 ELSE IF ~Lookup(SelectionMd, YumDataType(nb.ba)).ok
                   THEN Continue
                 ELSE /\ backend' = nb.ba
                      /\ Backend' = nb.ba
                      /\ pc' = AfterMark
                      /\ UNCHANGED idx
    /\ UNCHANGED <<disk, Backends, flags, hist, mode, mds, result, returned, lastQuery>>

\* the range loop has no name left
LoopDone ==
    /\ pc = "loop"
    /\ idx > Len(Backends)
    /\ pc' = "afterLoop"
    /\ UNCHANGED <<disk, Backends, flags, hist, Backend, backend, mode, idx, mds, result,
                   returned, log, lastQuery>>

rrepomd == Lookup(remotemd, YumDataType(Backends[idx])).v
lrepomd == Lookup(localmd, YumDataType(Backends[idx])).v

\* NeedUpdate without the timestamp comparison
NeedUpdate_OnlyHasDB(hasDB, r, l) == ~hasDB

\* !repo.Backend.HasDB() || rrepomd.Timestamp.After(lrepomd.Timestamp)
NeedUpdate(hasDB, r, l) == ~hasDB \/ After(r.Timestamp, l.Timestamp)

\* Backend.HasDB(): the database is there
HasDB(ba) == dbs[ba].present

Staleness ==
    /\ pc = "staleness"
    /\ log' = Append(log, Call("HasDB", idx, Backend, HasDB(Backend), NoArg))
    /\ pc' = IF NeedUpdate(HasDB(Backend), rrepomd, lrepomd) THEN "GetLatestDB" ELSE "LoadDB"
    /\ UNCHANGED <<disk, Backends, flags, hist, Backend, backend, mode, idx, mds, result,
                   returned, lastQuery>>

\* DbUrl with the location of the local record
DbUrl_LocalLocation == <<RepoUrl, "/", lrepomd.Location>>

\* url := repo.RepoUrl + "/" + rrepomd.Location
DbUrl == <<RepoUrl, "/", rrepomd.Location>>

\* GetLatestDB with the download error dropped
GetLatestDB_IgnoresError ==
    /\ pc = "GetLatestDB"
    /\ \E ok \in BOOLEAN :
          /\ log' = Append(log, Call("GetLatestDB", idx, Backend, ok, DbUrl))
          /\ dbs' = IF ok
                      THEN [dbs EXCEPT ![Backend] =
                               [present |-> TRUE, stamp |-> rrepomd.Timestamp]]
                      ELSE dbs
          /\ pc' = "WriteFile"
          /\ UNCHANGED <<backend, Backend, idx>>
    /\ UNCHANGED <<cacheFile, Backends, flags, hist, mode, mds, result, returned, lastQuery>>

\* err = repo.Backend.GetLatestDB(url): on success the backend's database
\* is the one the remote record describes; on failure it is left as it was
GetLatestDB ==
    /\ pc = "GetLatestDB"
    /\ \E ok \in BOOLEAN :
          /\ log' = Append(log, Call("GetLatestDB", idx, Backend, ok, DbUrl))
          /\ IF ok
               THEN /\ dbs' = [dbs EXCEPT ![Backend] =
                                  [present |-> TRUE, stamp |-> rrepomd.Timestamp]]
                    /\ pc' = "WriteFile"
                    /\ UNCHANGED <<backend, Backend, idx>>
               ELSE /\ AbortCandidate
                    /\ UNCHANGED dbs
    /\ UNCHANGED <<cacheFile, Backends, flags, hist, mode, mds, result, returned, lastQuery>>

\* what a failed ioutil.WriteFile may leave: the file untouched (it could
\* not be opened), truncated, or partly written
FailedWrites ==
    {cacheFile, [exists |-> TRUE, bytes |-> EmptyBytes], [exists |-> TRUE, bytes |-> Garbage]}

\* WriteFile with the write error returned to the caller
WriteFile_ReturnsError ==
    /\ pc = "WriteFile"
    /\ \E ok \in BOOLEAN :
          /\ log' = Append(log, Call("WriteFile", idx, Backend, ok, remotedata))
          /\ IF ok
               THEN /\ cacheFile' = [exists |-> TRUE, bytes |-> remotedata]
                    /\ pc' = "LoadDB"
                    /\ UNCHANGED <<backend, Backend, idx, result, returned>>
               ELSE /\ ReturnError("WriteFileError")
                    /\ cacheFile' \in FailedWrites
                    /\ UNCHANGED <<backend, Backend, idx>>
    /\ UNCHANGED <<dbs, Backends, flags, hist, mode, mds, lastQuery>>

\* WriteFile with the local document written instead of the remote one
WriteFile_WritesLocal ==
    /\ pc = "WriteFile"
    /\ \E ok \in BOOLEAN :
          /\ log' = Append(log, Call("WriteFile", idx, Backend, ok, localdata))
          /\ IF ok
               THEN /\ cacheFile' = [exists |-> TRUE, bytes |-> localdata]
                    /\ pc' = "LoadDB"
                    /\ UNCHANGED <<backend, Backend, idx>>
               ELSE /\ AbortCandidate
                    /\ cacheFile' \in FailedWrites
    /\ UNCHANGED <<dbs, Backends, flags, hist, mode, mds, result, returned, lastQuery>>

\* err = ioutil.WriteFile(repo.LocalRepoMdXml, remotedata, 0644)
WriteFile ==
    /\ pc = "WriteFile"
    /\ \E ok \in BOOLEAN :
          /\ log' = Append(log, Call("WriteFile", idx, Backend, ok, remotedata))
          /\ IF ok
               THEN /\ cacheFile' = [exists |-> TRUE, bytes |-> remotedata]
                    /\ pc' = "LoadDB"
                    /\ UNCHANGED <<backend, Backend, idx>>
               ELSE /\ AbortCandidate
                    /\ cacheFile' \in FailedWrites
    /\ UNCHANGED <<dbs, Backends, flags, hist, mode, mds, result, returned, lastQuery>>

\* LoadDB without the `break` after a successful load
LoadDB_NoBreak ==
    /\ pc = "LoadDB"
    /\ \E ok \in BOOLEAN :
          /\ log' = Append(log, Call("LoadDB", idx, Backend, ok, NoArg))
          /\ IF ok
               THEN /\ idx' = idx + 1
                    /\ pc' = "loop"
                    /\ UNCHANGED <<backend, Backend>>
               ELSE AbortCandidate
    /\ UNCHANGED <<disk, Backends, flags, hist, mode, mds, result, returned, lastQuery>>

\* err = repo.Backend.LoadDB(); on success `break`
LoadDB ==
    /\ pc = "LoadDB"
    /\ \E ok \in BOOLEAN :
          /\ log' = Append(log, Call("LoadDB", idx, Backend, ok, NoArg))
          /\ IF ok
               THEN /\ pc' = "afterLoop"
                    /\ UNCHANGED <<backend, Backend, idx>>
               ELSE AbortCandidate
    /\ UNCHANGED <<disk, Backends, flags, hist, mode, mds, result, returned, lastQuery>>

\* if backend == nil { return fmt.Errorf("No valid backend found") }
\* return err
Finish ==
    /\ pc = "afterLoop"
    /\ IF backend = Nil
         THEN ReturnError("No valid backend found")
         ELSE /\ result' = "ok"
              /\ returned' = TRUE
              /\ pc' = "done"
    /\ UNCHANGED <<disk, Backends, flags, hist, Backend, backend, mode, idx, mds, log, lastQuery>>

(***************************************************************************)
(* The forwarded queries: repo.Backend.<method>(...).  Calling a method on *)
(* a nil interface value panics.                                           *)
(***************************************************************************)
Queries == {"FindLatestMatchingName", "FindLatestMatchingRequire", "GetPackages"}

Answers == {"package", "no package"}

Forward(b, fn, answer) ==
    IF b = Nil
      THEN [fn |-> fn, outcome |-> "panic", ret |-> "none", answer |-> "none"]
      ELSE [fn |-> fn, outcome |-> "returned", ret |-> answer, answer |-> answer]

Query ==
    /\ pc = "done"
    /\ returned
    /\ \E fn \in Queries, answer \in Answers :
          lastQuery' = Forward(Backend, fn, answer)
    /\ UNCHANGED <<disk, Backends, flags, hist, Backend, backend, pc, mode, idx, mds, result,
                   returned, log>>

\* the caller is done with what NewRepository returned; the cache directory
\* stays as it is for the next call
DiscardRun ==
    /\ pc = "done"
    /\ pc' = "idle"
    /\ Backends' = <<>>
    /\ Backend' = Nil
    /\ backend' = Nil
    /\ mode' = "none"
    /\ idx' = 1
    /\ remotedata' = EmptyBytes
    /\ remotemd' = EmptyMap
    /\ localdata' = EmptyBytes
    /\ localmd' = EmptyMap
    /\ result' = "none"
    /\ returned' = FALSE
    /\ log' = <<>>
    /\ lastQuery' = NoQuery
    /\ flags' = NoFlags
    /\ UNCHANGED disk

Discard ==
    /\ DiscardRun
    /\ UNCHANGED hist

Next ==
    \/ NewRepository
    \/ Discard
    \/ RemoteMetadata
    \/ RemoteParse
    \/ LocalMetadata
    \/ LocalParse
    \/ CheckCandidate
    \/ LoopDone
    \/ Staleness
    \/ GetLatestDB
    \/ WriteFile
    \/ LoadDB
    \/ Finish
    \/ Query

Spec == Init /\ [][Next]_vars

(***************************************************************************)
(* Vocabulary of the properties.                                           *)
(***************************************************************************)
Last(s) == s[Len(s)]

InRun == mode \in {"remote", "local"}

RunEnded == pc = "done" /\ InRun

MetadataErrors ==
    {"RemoteFetchError", "RemoteParseError", "LocalFetchError", "LocalParseError"}

NoValidBackend == "No valid backend found"

\* the calls made on behalf of one candidate
CandidateOps == {"NewBackend", "HasDB", "GetLatestDB", "WriteFile", "LoadDB"}

\* the calls of a candidate that can fail
FailingOps == {"NewBackend", "GetLatestDB", "WriteFile", "LoadDB"}

Logged(op, i) == \E k \in DOMAIN log : log[k].op = op /\ log[k].i = i

LoggedOk(op, i) == \E k \in DOMAIN log : log[k].op = op /\ log[k].i = i /\ log[k].ok

Completed == \E k \in DOMAIN log : log[k].op = "LoadDB" /\ log[k].ok

\* candidate j was given up: one of its calls failed, or its data type is
\* not in the mapping the loop selects from
GivenUp(j) ==
    \/ \E k \in DOMAIN log : log[k].i = j /\ log[k].op \in FailingOps /\ ~log[k].ok
    \/ /\ Backends[j] \in g_backends
       /\ ~Lookup(SelectionMd, YumDataType(Backends[j])).ok

(***************************************************************************)
(* C1: when a synchronization run ends, success means that the Repository  *)
(* has an active Backend whose LoadDB succeeded during this run, and an    *)
(* error means that the Backend field is nil.                              *)
(***************************************************************************)
C1_OutcomeMatchesBackend ==
    RunEnded =>
        /\ result = "ok" =>
              /\ Backend \in g_backends
              /\ \E k \in DOMAIN log :
                    log[k].op = "LoadDB" /\ log[k].ok /\ log[k].name = Backend
        /\ result # "ok" => Backend = Nil

C1_Witness ==
    /\ RunEnded
    /\ mode = "remote"
    /\ result = "ok"
    /\ \E k \in DOMAIN log : log[k].op = "LoadDB" /\ ~log[k].ok

(***************************************************************************)
(* C2: candidates are evaluated strictly in the order of repo.Backends;    *)
(* the committed backend is the first name every step succeeded for (each  *)
(* earlier name was given up), and nothing is called for a later name.     *)
(***************************************************************************)
C2_FirstSuccessWins ==
    /\ \A k1, k2 \in DOMAIN log : k1 < k2 => log[k1].i <= log[k2].i
    /\ \A k \in DOMAIN log :
          log[k].op \in CandidateOps =>
              /\ log[k].i \in 1..Len(Backends)
              /\ log[k].i <= idx
              /\ log[k].name = Backends[log[k].i]
    /\ \A j \in 1..(idx - 1) : Logged("NewBackend", j)
    /\ (RunEnded /\ result = "ok") =>
          /\ idx \in 1..Len(Backends)
          /\ Backend = Backends[idx]
          /\ \A k \in DOMAIN log :
                (log[k].i = idx /\ log[k].op \in FailingOps) => log[k].ok
          /\ \A j \in 1..(idx - 1) : GivenUp(j)

C2_Witness ==
    /\ RunEnded
    /\ result = "ok"
    /\ Backends = <<"sqlite", "flat">>
    /\ Backend = "sqlite"
    /\ LoggedOk("GetLatestDB", 1)
    /\ ~Logged("NewBackend", 2)

(***************************************************************************)
(* C3: a failure of a candidate (NewBackend, GetLatestDB, the write of     *)
(* repomd.xml, LoadDB) does not end the run and is not returned: the loop  *)
(* goes on with the next name; once in the loop, the run ends only after   *)
(* the loop, with an error if and only if no candidate completed, and      *)
(* that error is "No valid backend found".                                 *)
(***************************************************************************)
LoopPcs == {"loop", "staleness", "GetLatestDB", "WriteFile", "LoadDB", "afterLoop"}

C3_Step ==
    /\ (pc \in LoopPcs /\ Len(log') > Len(log) /\ Last(log').op \in FailingOps
          /\ ~Last(log').ok)
         => (pc' = "loop" /\ idx' = idx + 1 /\ result' = "none")
    /\ (pc \in LoopPcs /\ pc' \notin LoopPcs)
         => /\ pc = "afterLoop"
            /\ pc' = "done"
            /\ result' \in {"ok", NoValidBackend}
            /\ (result' = NoValidBackend) <=> ~Completed

C3_CandidateFailuresSwallowed == [][C3_Step]_vars

C3_Witness ==
    /\ RunEnded
    /\ result = "ok"
    /\ \E k \in DOMAIN log : log[k].op = "WriteFile" /\ ~log[k].ok

(***************************************************************************)
(* C4: a failure of a fetch or a parse of the metadata phase is returned   *)
(* at once: no candidate is instantiated, no HasDB, GetLatestDB or LoadDB  *)
(* is called, repomd.xml is not written and the Backend stays nil.         *)
(***************************************************************************)
C4_Step ==
    /\ (pc = "remoteMetadata" /\ ~Last(log').ok)
         => (pc' = "done" /\ result' = "RemoteFetchError")
    /\ (pc = "remoteParse" /\ remotedata.kind = "garbage")
         => (pc' = "done" /\ result' = "RemoteParseError")
    /\ (pc = "localMetadata" /\ Len(log') > Len(log) /\ ~Last(log').ok)
         => (pc' = "done" /\ result' = "LocalFetchError")
    /\ (pc = "localParse" /\ localdata.kind = "garbage")
         => (pc' = "done" /\ result' = "LocalParseError")
    /\ result' \in MetadataErrors
         => /\ pc' = "done"
            /\ ~returned'
            /\ Backend' = Nil
            /\ \A k \in DOMAIN log' : log'[k].op \notin CandidateOps
            /\ disk' = disk

C4_MetadataErrorsAbort == [][C4_Step]_vars

C4_Witness ==
    /\ pc = "done"
    /\ mode = "remote"
    /\ result = "LocalParseError"
    /\ Len(Backends) = 2

(***************************************************************************)
(* C5: in remote-checking mode repomd.xml is written only by the candidate *)
(* the run ends up committing; a run that fails has not written it.        *)
(***************************************************************************)
C5_CacheWrittenOnlyByWinner ==
    (RunEnded /\ mode = "remote") =>
        \A k \in DOMAIN log :
            (log[k].op = "WriteFile" /\ log[k].ok)
                => (result = "ok" /\ log[k].i = idx)

(***************************************************************************)
(* C6 as stated: for a candidate whose data type is in the remote mapping  *)
(* and not in the local one, GetLatestDB is not called when HasDB() is     *)
(* true.                                                                   *)
(***************************************************************************)
LocalRecordMissing == ~Lookup(localmd, YumDataType(Backends[idx])).ok

C6_MissingLocalRecordNeverForces ==
    (pc = "GetLatestDB" /\ LocalRecordMissing) => ~HasDB(Backend)

(***************************************************************************)
(* C6 as amended: for such a candidate the missing local record is the     *)
(* zero RepoMD, whose Timestamp is the zero time (January 1, year 1);      *)
(* GetLatestDB is called exactly when HasDB() is false or the remote       *)
(* timestamp is later than the zero time.                                  *)
(***************************************************************************)
LaterThanZeroTime(t) ==
    \/ t.day > 0
    \/ t.day = 0 /\ (t.sec > 0 \/ (t.sec = 0 /\ t.nsec > 0))

C6_Step ==
    (pc = "staleness" /\ LocalRecordMissing /\ pc' # pc) =>
        /\ pc' \in {"GetLatestDB", "LoadDB"}
        /\ (pc' = "GetLatestDB") <=>
              (~dbs[Backend].present \/ LaterThanZeroTime(rrepomd.Timestamp))

C6_MissingLocalRecordIsZeroTime == [][C6_Step]_vars

C6_Witness ==
    /\ pc = "GetLatestDB"
    /\ LocalRecordMissing
    /\ HasDB(Backend)

(***************************************************************************)
(* C7: for a candidate with HasDB() true whose remote timestamp equals its *)
(* local record's timestamp, or is earlier, neither GetLatestDB nor the    *)
(* write of repomd.xml happens.                                            *)
(***************************************************************************)
NotLater(j) ==
    LET type == YumDataType(Backends[j])
        r    == Lookup(remotemd, type)
        l    == Lookup(localmd, type)
    IN  /\ r.ok
        /\ l.ok
        /\ \/ r.v.Timestamp = l.v.Timestamp
           \/ After(l.v.Timestamp, r.v.Timestamp)

C7_NoUpdateUnlessStrictlyLater ==
    mode = "remote" =>
        \A j \in 1..Len(Backends) :
            (LoggedOk("HasDB", j) /\ NotLater(j))
                => (~Logged("GetLatestDB", j) /\ ~Logged("WriteFile", j)
                      /\ (idx = j => pc \notin {"GetLatestDB", "WriteFile"}))

C7_Witness ==
    /\ mode = "remote"
    /\ pc = "LoadDB"
    /\ LoggedOk("HasDB", idx)
    /\ NotLater(idx)
    /\ rrepomd.Timestamp = lrepomd.Timestamp

(***************************************************************************)
(* C8: a forwarded query on a Repository with no active backend fails with *)
(* an error instead of crashing.                                           *)
(***************************************************************************)
C8_QueryNeverCrashes == lastQuery.outcome # "panic"

(***************************************************************************)
(* C9: local-only mode makes no network request, never calls HasDB or      *)
(* GetLatestDB, never writes repomd.xml: per candidate only NewBackend,    *)
(* the lookup in the local mapping and LoadDB.                             *)
(***************************************************************************)
C9_Step ==
    mode' = "local" =>
        /\ disk' = disk
        /\ pc' \notin {"remoteMetadata", "remoteParse", "staleness", "GetLatestDB", "WriteFile"}
        /\ \A k \in DOMAIN log' :
              log'[k].op \in {"MkdirAll", "os.Open", "NewBackend", "LoadDB"}
        /\ (Len(log') > Len(log) /\ Last(log').op = "LoadDB")
              => (Len(log) > 0 /\ Last(log).op = "NewBackend" /\ Last(log).ok
                    /\ Last(log).i = Last(log').i)

C9_LocalModeOnlyLoads == [][C9_Step]_vars

C9_Witness ==
    /\ RunEnded
    /\ mode = "local"
    /\ result = "ok"
    /\ idx = 2

(***************************************************************************)
(* C10 as stated: in remote-checking mode, when no candidate's data type   *)
(* is in the remote mapping, the run fails with "No valid backend found".  *)
(***************************************************************************)
RemoteParsed ==
    /\ mode = "remote"
    /\ pc \notin {"remoteMetadata", "remoteParse"}
    /\ result \notin {"RemoteFetchError", "RemoteParseError"}

NoCandidateInRemote ==
    \A j \in 1..Len(Backends) :
        Backends[j] \in g_backends => ~Lookup(remotemd, YumDataType(Backends[j])).ok

C10_AlwaysSelectionError ==
    (RemoteParsed /\ NoCandidateInRemote /\ pc = "done") => result = NoValidBackend

(***************************************************************************)
(* C10 as amended: in that case no backend is set at any point of the run, *)
(* GetLatestDB and LoadDB are not called and repomd.xml is not written;    *)
(* the run fails, with "No valid backend found" when the local fetch and   *)
(* the local parse succeed and with their error otherwise.                 *)
(***************************************************************************)
C10_NoRemoteTypeNoBackend ==
    (RemoteParsed /\ NoCandidateInRemote) =>
        /\ Backend = Nil
        /\ backend = Nil
        /\ pc \notin {"staleness", "GetLatestDB", "WriteFile", "LoadDB"}
        /\ \A k \in DOMAIN log : log[k].op \notin {"HasDB", "GetLatestDB", "WriteFile", "LoadDB"}
        /\ pc = "done" =>
              /\ ~returned
              /\ result = IF \E k \in DOMAIN log : log[k].op = "os.Open" /\ ~log[k].ok
                            THEN "LocalFetchError"
                          ELSE IF localdata.kind = "garbage"
                            THEN "LocalParseError"
                          ELSE NoValidBackend

C10_Witness ==
    /\ RemoteParsed
    /\ NoCandidateInRemote
    /\ pc = "done"
    /\ remotedata.kind = "xml"
    /\ Backends = <<"sqlite", "flat">>
    /\ result = NoValidBackend

(***************************************************************************)
(* C11 as stated: after every successful remote-checking run repomd.xml    *)
(* holds the remote document fetched in that run.                          *)
(***************************************************************************)
C11_CacheIsLastRemoteDocument ==
    (RunEnded /\ mode = "remote" /\ result = "ok") =>
        (cacheFile.exists /\ cacheFile.bytes = remotedata)

(***************************************************************************)
(* C11 as amended: after a successful remote-checking run whose committed  *)
(* candidate required an update, repomd.xml holds the remote document      *)
(* fetched in that run; when the committed candidate required no update    *)
(* the run did not write the file on its behalf.                           *)
(***************************************************************************)
C11_CacheIsRemoteDocumentAfterUpdate ==
    (RunEnded /\ mode = "remote" /\ result = "ok") =>
        /\ Logged("GetLatestDB", idx) =>
              (cacheFile.exists /\ cacheFile.bytes = remotedata)
        /\ ~Logged("GetLatestDB", idx) => ~Logged("WriteFile", idx)

C11_Witness ==
    /\ RunEnded
    /\ mode = "remote"
    /\ result = "ok"
    /\ Logged("GetLatestDB", idx)
    /\ localdata # remotedata
    /\ cacheFile.bytes = remotedata

(***************************************************************************)
(* C12 as stated: within one run the Backend field goes from nil to a      *)
(* backend at most once: when it is set for the candidate at idx, it was   *)
(* set for no earlier candidate.                                           *)
(***************************************************************************)
\* candidate j was marked (`repo.Backend = backend`): every marked
\* candidate goes on to HasDB (remote mode) or LoadDB (local mode)
Marked(j) == Logged("HasDB", j) \/ Logged("LoadDB", j)

C12_SetAtMostOnce ==
    Backend # Nil => \A j \in 1..(idx - 1) : ~Marked(j)

(***************************************************************************)
(* C12 as amended: within one run the Backend field is set at most once    *)
(* per candidate, when the candidate is marked; it is changed afterwards   *)
(* only by being cleared when that candidate is aborted; once a            *)
(* candidate's LoadDB has succeeded it is not changed again in the run.    *)
(***************************************************************************)
C12_Step ==
    /\ (Backend = Nil /\ Backend' # Nil)
         => /\ pc = "loop"
            /\ idx' = idx
            /\ Backend' = Backends[idx]
            /\ ~Marked(idx)
    /\ (Backend # Nil /\ Backend' # Backend)
         => /\ Backend' = Nil
            /\ \/ pc' = "idle"
               \/ /\ idx' = idx + 1
                  /\ Len(log') > Len(log)
                  /\ Last(log').op \in FailingOps
                  /\ ~Last(log').ok
    /\ (Completed /\ pc' # "idle") => Backend' = Backend

C12_SetOncePerCandidate == [][C12_Step]_vars

C12_Witness ==
    /\ Backend # Nil
    /\ \E j \in 1..(idx - 1) : Marked(j)
    /\ Completed

(***************************************************************************)
(* C13 as stated: in local-only mode, when repomd.xml does not exist or    *)
(* exists and is empty, the run fails with "No valid backend found".       *)
(***************************************************************************)
NoLocalMetadata == ~cacheFile.exists \/ cacheFile.bytes.kind = "empty"

C13_EmptyLocalAlwaysSelectionError ==
    (RunEnded /\ mode = "local" /\ NoLocalMetadata) => result = NoValidBackend

(***************************************************************************)
(* C13 as amended: in local-only mode, when repomd.xml does not exist, or  *)
(* exists empty and can be opened, the local fetch and parse give an empty *)
(* mapping, every candidate is skipped, LoadDB is never called and the run *)
(* fails with "No valid backend found" with no backend set; a missing file *)
(* is not even opened.                                                     *)
(***************************************************************************)
OpenFailed == \E k \in DOMAIN log : log[k].op = "os.Open" /\ ~log[k].ok

C13_EmptyLocalMetadataSkipsAll ==
    (mode = "local" /\ NoLocalMetadata) =>
        /\ ~cacheFile.exists => \A k \in DOMAIN log : log[k].op # "os.Open"
        /\ Backend = Nil
        /\ backend = Nil
        /\ \A k \in DOMAIN log : log[k].op # "LoadDB"
        /\ pc \in {"loop", "afterLoop"} => DOMAIN localmd = {}
        /\ (pc = "done" /\ ~OpenFailed) =>
              /\ result = NoValidBackend
              /\ ~returned
              /\ DOMAIN localmd = {}
              /\ idx = Len(Backends) + 1
              /\ \A j \in 1..Len(Backends) : Logged("NewBackend", j)

C13_Witness ==
    /\ RunEnded
    /\ mode = "local"
    /\ cacheFile.exists
    /\ cacheFile.bytes.kind = "empty"
    /\ Backends = <<"sqlite", "flat">>
    /\ \A j \in 1..2 : LoggedOk("NewBackend", j)
    /\ result = NoValidBackend

(***************************************************************************)
(* C14: in remote-checking mode a candidate that reaches the staleness     *)
(* decision with HasDB() false, or with a remote timestamp strictly later  *)
(* than the local one, gets GetLatestDB called exactly once, right after   *)
(* the decision and before any LoadDB, with the URL made of the base URL,  *)
(* "/" and the location of the remote record; it is committed only if      *)
(* that download succeeded.                                                *)
(***************************************************************************)
RemoteRecord(j) == Lookup(remotemd, YumDataType(Backends[j])).v
LocalRecord(j)  == Lookup(localmd, YumDataType(Backends[j])).v

Stale(j, hasDB) ==
    ~hasDB \/ After(RemoteRecord(j).Timestamp, LocalRecord(j).Timestamp)

C14_StaleCandidateIsDownloaded ==
    mode = "remote" =>
        \A kh \in DOMAIN log :
            LET j == log[kh].i
            IN  (log[kh].op = "HasDB" /\ Stale(j, log[kh].ok)) =>
                    IF kh = Len(log)
                      THEN pc = "GetLatestDB" /\ idx = j
                      ELSE /\ log[kh + 1].op = "GetLatestDB"
                           /\ log[kh + 1].i = j
                           /\ log[kh + 1].arg = <<RepoUrl, "/", RemoteRecord(j).Location>>
                           /\ Cardinality({k \in DOMAIN log :
                                  log[k].op = "GetLatestDB" /\ log[k].i = j}) = 1
                           /\ \A k \in DOMAIN log :
                                  (log[k].op = "LoadDB" /\ log[k].i = j) => k > kh + 1
                           /\ (RunEnded /\ result = "ok" /\ idx = j) => log[kh + 1].ok

C14_Witness ==
    /\ RunEnded
    /\ mode = "remote"
    /\ result = "ok"
    /\ LoggedOk("HasDB", idx)
    /\ LoggedOk("GetLatestDB", idx)
    /\ Lookup(localmd, YumDataType(Backend)).ok
    /\ LocalRecord(idx).Location # RemoteRecord(idx).Location

(***************************************************************************)
(* C15: for a candidate that requires an update the steps are download,    *)
(* persist, load, each gated on the one before: repomd.xml is written only *)
(* right after a successful GetLatestDB, with the remote document of this  *)
(* run; LoadDB comes only after a successful write; a failed download is   *)
(* followed by neither, a failed write by no LoadDB, and in both cases the *)
(* candidate is aborted with the Backend field cleared.                    *)
(***************************************************************************)
C15_DownloadPersistLoad ==
    mode = "remote" =>
        \A k \in DOMAIN log :
            LET j == log[k].i
            IN  /\ log[k].op = "WriteFile" =>
                      /\ k > 1
                      /\ log[k - 1].op = "GetLatestDB"
                      /\ log[k - 1].i = j
                      /\ log[k - 1].ok
                      /\ log[k].arg = remotedata
                      /\ (log[k].ok /\ k = Len(log)) =>
                            (cacheFile.exists /\ cacheFile.bytes = remotedata)
                /\ (log[k].op = "LoadDB" /\ Logged("GetLatestDB", j)) =>
                      /\ log[k - 1].op = "WriteFile"
                      /\ log[k - 1].i = j
                      /\ log[k - 1].ok
                /\ (log[k].op \in {"GetLatestDB", "WriteFile"} /\ ~log[k].ok) =>
                      /\ \A k2 \in DOMAIN log : k2 > k => log[k2].i > j
                      /\ k = Len(log) =>
                          /\ pc \in {"loop", "afterLoop", "done"}
                          /\ idx = j + 1
                          /\ Backend = Nil
                          /\ backend = Nil

C15_Witness ==
    /\ mode = "remote"
    /\ pc = "loop"
    /\ Len(log) > 0
    /\ Last(log).op = "WriteFile"
    /\ ~Last(log).ok

(***************************************************************************)
(* C16: NewRepository hands a Repository to the caller if and only if it   *)
(* returns no error.  With setupBackend it runs the remote-checking        *)
(* synchronization when checkForUpdates is set and the local-only one      *)
(* otherwise; a failed synchronization fails the construction, a           *)
(* successful one returns the Repository with the committed backend.       *)
(* Without setupBackend nothing is fetched, no backend is touched and the  *)
(* Repository is returned with no active backend (the cache directory      *)
(* having been created).                                                   *)
(***************************************************************************)
MkdirOk == Len(log) > 0 /\ log[1].op = "MkdirAll" /\ log[1].ok

Merge(a, b) ==
    [t \in (DOMAIN a) \cup (DOMAIN b) |-> IF t \in DOMAIN b THEN b[t] ELSE a[t]]

NotEarlierThanSeen(d) ==
    LET r == checkRepoMD(d)
    IN  r.err \/ \A t \in (DOMAIN r.db) \cap (DOMAIN hist.seen) :
                    ~After(hist.seen[t].Timestamp, r.db[t].Timestamp)

MonotoneDocs == {d \in ServerDocs : NotEarlierThanSeen(d)}

RemoteMetadataMono ==
    /\ RemoteMetadataFrom(MonotoneDocs)
    /\ hist' = IF pc' = "remoteParse"
                 THEN [hist EXCEPT !.seen = Merge(hist.seen, checkRepoMD(remotedata').db)]
                 ELSE hist

InitMono ==
    /\ Init
    /\ ~cacheFile.exists
    /\ \A b \in g_backends : ~dbs[b].present

NextMono ==
    \/ NewRepository
    \/ Discard
    \/ RemoteMetadataMono
    \/ RemoteParse
    \/ LocalMetadata
    \/ LocalParse
    \/ CheckCandidate
    \/ LoopDone
    \/ Staleness
    \/ GetLatestDB
    \/ WriteFile
    \/ LoadDB
    \/ Finish
    \/ Query

SpecMono == InitMono /\ [][NextMono]_vars

(***************************************************************************)
(* C17: whenever a remote-checking run commits a backend, the backend's    *)
(* database on disk was downloaded from a record whose timestamp is not    *)
(* earlier than the timestamp the remote now gives for its data type.      *)
(***************************************************************************)
C17_NeverCommitsOlderDatabase ==
    (RunEnded /\ mode = "remote" /\ result = "ok") =>
        /\ dbs[Backend].present
        /\ ~After(rrepomd.Timestamp, dbs[Backend].stamp)

(***************************************************************************)
(* A run and its repetition.  When a remote-checking run has committed a   *)
(* backend, hist.prev keeps its remote document, its candidate list, the   *)
(* backend it committed and whether every call of it succeeded; the next   *)
(* run is then a remote-checking run with the same list, and the server    *)
(* answers with the same document.  The calls of the repetition may still  *)
(* fail.                                                                   *)
(***************************************************************************)
\* every call of the run succeeded (HasDB reports, it does not fail)
AllCallsOk == \A k \in DOMAIN log : log[k].op # "HasDB" => log[k].ok

DiscardRecord ==
    /\ DiscardRun
    /\ hist' = [hist EXCEPT !.prev =
                   IF mode = "remote" /\ result = "ok"
                     THEN [set |-> TRUE, doc |-> remotedata, Backends |-> Backends,
                           Backend |-> Backend, allOk |-> AllCallsOk]
                     ELSE NoHist.prev]

NewRepositoryRepeat ==
    /\ \E bs \in CandidateLists, setupBackend \in BOOLEAN,
          checkForUpdates \in BOOLEAN, mkdirOk \in BOOLEAN :
          /\ hist.prev.set =>
                (bs = hist.prev.Backends /\ setupBackend /\ checkForUpdates)
          /\ NewRepositoryWith(bs, setupBackend, checkForUpdates, mkdirOk)
    /\ UNCHANGED hist

RemoteMetadataRepeat ==
    /\ RemoteMetadataFrom(IF hist.prev.set THEN {hist.prev.doc} ELSE ServerDocs)
    /\ UNCHANGED hist

NextRepeat ==
    \/ NewRepositoryRepeat
    \/ DiscardRecord
    \/ RemoteMetadataRepeat
    \/ RemoteParse
    \/ LocalMetadata
    \/ LocalParse
    \/ CheckCandidate
    \/ LoopDone
    \/ Staleness
    \/ GetLatestDB
    \/ WriteFile
    \/ LoadDB
    \/ Finish
    \/ Query

SpecRepeat == Init /\ [][NextRepeat]_vars

(***************************************************************************)
(* C18 as stated: when a remote-checking run committed backend B and is    *)
(* repeated with the same remote document and candidate list, every call   *)
(* succeeding, the repetition calls no GetLatestDB, does not write         *)
(* repomd.xml and commits B.                                               *)
(***************************************************************************)
NothingDownloaded ==
    \A k \in DOMAIN log : log[k].op \notin {"GetLatestDB", "WriteFile"}

C18_RepeatIsIdempotent ==
    (RunEnded /\ hist.prev.set /\ AllCallsOk /\ result \notin MetadataErrors) =>
        /\ result = "ok"
        /\ Backend = hist.prev.Backend
        /\ NothingDownloaded

(***************************************************************************)
(* C18 as amended: the same, when every call of the first run succeeded    *)
(* as well.                                                                *)
(***************************************************************************)
C18_RepeatAfterCleanRunIsIdempotent ==
    (RunEnded /\ hist.prev.set /\ hist.prev.allOk /\ AllCallsOk) =>
        /\ result = "ok"
        /\ Backend = hist.prev.Backend
        /\ NothingDownloaded
        /\ remotedata = hist.prev.doc
        /\ Backends = hist.prev.Backends

C18_Witness ==
    /\ RunEnded
    /\ hist.prev.set
    /\ hist.prev.allOk
    /\ AllCallsOk
    /\ Len(Backends) = 2
    /\ idx = 2
    /\ cacheFile.bytes = remotedata
    /\ Logged("HasDB", 2)

(***************************************************************************)
(* A run is single-threaded and synchronous: as long as every collaborator *)
(* call returns, the step the run is at is eventually taken.               *)
(***************************************************************************)
RunStep ==
    \/ RemoteMetadata
    \/ RemoteParse
    \/ LocalMetadata
    \/ LocalParse
    \/ CheckCandidate
    \/ LoopDone
    \/ Staleness
    \/ GetLatestDB
    \/ WriteFile
    \/ LoadDB
    \/ Finish

SpecFair == Spec /\ WF_vars(RunStep)

(***************************************************************************)
(* C19: every synchronization run terminates, with a committed backend or  *)
(* with an overall failure; each configured name is evaluated at most once *)
(* per run, in order, with no retry of an aborted candidate.               *)
(***************************************************************************)
EvaluatedAtMostOnce ==
    /\ \A j \in 1..Len(Backends) :
          Cardinality({k \in DOMAIN log : log[k].op = "NewBackend" /\ log[k].i = j}) <= 1
    /\ \A k \in DOMAIN log :
          log[k].op \in CandidateOps =>
              \A k2 \in DOMAIN log : (k2 > k /\ log[k2].op = "NewBackend") => log[k2].i > log[k].i
    /\ idx <= Len(Backends) + 1

RunEndedWithOutcome ==
    /\ pc = "done"
    /\ \/ result = "ok" /\ Backend \in g_backends
       \/ result \in MetadataErrors \cup {NoValidBackend} /\ Backend = Nil

C19_RunsTerminate ==
    /\ []EvaluatedAtMostOnce
    /\ (InRun /\ pc # "done") ~> RunEndedWithOutcome

C19_Witness ==
    /\ RunEnded
    /\ Len(Backends) = 2
    /\ idx = 3
    /\ \A j \in 1..2 : Marked(j)
    /\ result = NoValidBackend

(***************************************************************************)
(* The codec on its own: checkRepoMD applied to every document of up to    *)
(* MaxEntries data entries, to the empty byte sequence and to bytes that   *)
(* are no repomd document.  The state is the one right after a successful  *)
(* remote fetch.                                                           *)
(***************************************************************************)
MaxEntries == 2

CodecEntries ==
    {E(t, ts, h) : t \in {"primary_db", "primary"}, ts \in {T1, T2}, h \in {"a", "b"}}

CodecDocs ==
    {EmptyBytes, Garbage} \cup {Doc(es) : es \in SeqsUpTo(CodecEntries, MaxEntries)}

InitCodec ==
    /\ cacheFile = [exists |-> FALSE, bytes |-> EmptyBytes]
    /\ dbs = [b \in g_backends |-> NoDB]
    /\ Backends = <<>>
    /\ Backend = Nil
    /\ backend = Nil
    /\ pc = "remoteParse"
    /\ mode = "remote"
    /\ idx = 1
    /\ remotedata \in CodecDocs
    /\ remotemd = EmptyMap
    /\ localdata = EmptyBytes
    /\ localmd = EmptyMap
    /\ result = "none"
    /\ returned = FALSE
    /\ log = <<Call("MkdirAll", 0, "", TRUE, NoArg),
               Call("http.Get", 0, "", TRUE, <<RepoUrl, "/repodata/repomd.xml">>)>>
    /\ lastQuery = NoQuery
    /\ flags = [setupBackend |-> TRUE, checkForUpdates |-> TRUE]
    /\ hist = NoHist

NextCodec == RemoteParse

SpecCodec == InitCodec /\ [][NextCodec]_vars

(***************************************************************************)
(* C20: checkRepoMD maps the data entries of a document to a mapping whose *)
(* keys are exactly the data types occurring in the document and whose     *)
(* record for a type is that of the last entry of that type; the empty     *)
(* byte sequence gives the empty mapping and no error; parsing the         *)
(* document again gives the same mapping.                                  *)
(***************************************************************************)
TypesOf(es) == {es[k].Type : k \in DOMAIN es}

LastOf(es, t) ==
    CHOOSE k \in DOMAIN es :
        es[k].Type = t /\ \A k2 \in DOMAIN es : k2 > k => es[k2].Type # t

C20_LastEntryWins ==
    /\ pc = "localMetadata" =>
          LET es == remotedata.data
          IN  /\ remotedata.kind # "garbage"
              /\ result = "none"
              /\ DOMAIN remotemd = TypesOf(es)
              /\ \A t \in TypesOf(es) :
                    /\ remotemd[t].Location = es[LastOf(es, t)].Href
                    /\ remotemd[t].Checksum = es[LastOf(es, t)].Checksum
                    /\ remotemd[t].Timestamp = UnixTime(es[LastOf(es, t)].Timestamp)
              /\ remotedata.kind = "empty" => DOMAIN remotemd = {}
              /\ remotemd = checkRepoMD(remotedata).db
    /\ pc = "done" => (remotedata.kind = "garbage" /\ result = "RemoteParseError")

C20_Witness ==
    /\ pc = "localMetadata"
    /\ Len(remotedata.data) = 2
    /\ remotedata.data[1].Type = remotedata.data[2].Type
    /\ remotedata.data[1].Href # remotedata.data[2].Href
    /\ remotemd[remotedata.data[1].Type].Location = remotedata.data[2].Href

====
